---------------------------- MODULE Spec2Model ----------------------------
(***************************************************************************)
(* A model of mingw.condition_variable.h: the emulated condition variable  *)
(* (namespace xp: semaphore + auto-reset event + internal mutex + atomic   *)
(* waiter counter) and the native-backed one (namespace vista: a Win32     *)
(* CONDITION_VARIABLE and the any-lock adapter around it).                 *)
(*                                                                         *)
(* Threads are waiters (they take the caller's lock and call the wait      *)
(* family) and notifiers (they call notify_one / notify_all, with or       *)
(* without the caller's lock, and change the awaited state under it).      *)
(* Every statement of the source that another thread can observe is one    *)
(* step of the thread that executes it.                                    *)
(***************************************************************************)
EXTENDS Integers, FiniteSets, TLC

\* ------------------------------------------------------------------ bounds
NumWaiters == 2
NumNotifiers == 1

Waiters == 1..NumWaiters
Notifiers == (NumWaiters + 1)..(NumWaiters + NumNotifiers)
Threads == Waiters \cup Notifiers
NoThread == 0

\* --------------------------------------------------------- program constants
\* A long long of milliseconds is written <<q, hi, lo>>, standing for
\* q * 2^32 + hi * 2^16 + lo with 0 <= hi, lo < 2^16 (q < 0 exactly for a
\* negative number); a DWORD is written <<hi, lo>>.
HalfWordMax == 65535
INFINITE == <<HalfWordMax, HalfWordMax>>
SemaphoreMax == 65535

\* The requested durations, in whole milliseconds (duration_cast's result);
\* for wait_until, abs_time - Clock::now() at the moment it is computed:
\* -1, 0 and 50.
Durations == {<<-1, HalfWordMax, HalfWordMax>>, <<0, 0, 0>>, <<0, 0, 50>>}

VARIABLES
    pc,             \* the statement each thread is at
    op,             \* the public member function a waiter is inside
    mode,           \* how a thread's lock object locks: "excl" or "shared"
    held,           \* how the thread holds the caller's lock right now:
                    \*   "none", "excl" or "shared"
    flag,           \* the awaited shared state; pred() is "flag"
    timeout,        \* the DWORD handed to wait_impl
    ret,            \* what the OS wait inside wait_impl returned: a
                    \*   WaitForSingleObject status (xp), a BOOL (vista)
    result,         \* what the public member function returns
    mMutex,         \* xp: owner of the internal recursive_mutex
    mNumWaiters,    \* xp: the atomic waiter counter
    mSemaphore,     \* xp: the semaphore's count
    mWakeEvent,     \* xp: the auto-reset event's state
    targetWaiters,  \* xp: notify_one's local
    aborted,        \* a failed assert ended the process
    family,         \* the class and lock type the run's callers use: "xp"
                    \*   (xp::condition_variable_any), "mutex"
                    \*   (unique_lock<mutex>), "srw" (a lock on the native
                    \*   shared_mutex), "generic" (any other lock type)
    cvariable_,     \* vista: the threads asleep on the CONDITION_VARIABLE
    internal_mutex_,\* vista: owner of the adapter's mutex
    hReg,           \* history: the waiters registered when the notify call
                    \*   in progress acquired mMutex
    hParked,        \* history: the waiters blocked on mSemaphore at that
                    \*   moment
    hWoken          \* history: the waiters whose semaphore wait returned
                    \*   WAIT_OBJECT_0 since the notify_one in progress
                    \*   released its unit

vars == <<pc, op, mode, held, flag, timeout, ret, result, mMutex,
          mNumWaiters, mSemaphore, mWakeEvent, targetWaiters, aborted,
          family, cvariable_, internal_mutex_, hReg, hParked, hWoken>>

xpVars == <<mMutex, mNumWaiters, mSemaphore, mWakeEvent, targetWaiters>>
vistaVars == <<family, cvariable_, internal_mutex_>>
hVars == <<hReg, hParked, hWoken>>
callVars == <<op, timeout, ret, result>>

\* ----------------------------------------------------------- pure helpers

\* (DWORD)x: the conversion of a long long to a 32-bit unsigned keeps the
\* low 32 bits.
ToDWORD(x) == <<x[2], x[3]>>

\* wait_for's conversion of the requested milliseconds to the OS timeout:
\* if (timeout < 0) timeout = 0; then (DWORD)timeout.
ClampTimeout(ms) == ToDWORD(IF ms[1] < 0 THEN <<0, 0, 0>> ELSE ms)

\* The caller's lock: an acquisition in mode m blocks until this holds.
CanLock(t, m) ==
    IF m = "excl"
    THEN \A u \in Threads \ {t} : held[u] = "none"
    ELSE \A u \in Threads \ {t} : held[u] # "excl"

\* The caller's continuation after a notify call: in or out of its lock.
AfterNotify(t) == IF held[t] # "none" THEN "cs" ELSE "idle"

\* A waiter that has incremented mNumWaiters and not yet decremented it.
RegisteredPcs == {"wi_unlock", "wi_semwait", "wi_blocked", "wi_decr"}
Registered == {w \in Waiters : pc[w] \in RegisteredPcs}

\* A waiter blocked inside WaitForSingleObject(mSemaphore).
Parked == {w \in Waiters : pc[w] = "wi_blocked"}

\* A registered waiter whose WaitForSingleObject(mSemaphore) has not returned.
InSemWaitPcs == {"wi_unlock", "wi_semwait", "wi_blocked"}

\* A notify_one that has released its unit and has not returned.
NotifyOneReleasedPcs == {"n1_loop", "n1_assert", "n1_ret"}
NotifyOneReleased == \E n \in Notifiers : pc[n] \in NotifyOneReleasedPcs

\* What a waiter leaving the semaphore wait as notified adds to the history.
Woken(t) == IF NotifyOneReleased THEN hWoken \cup {t} ELSE hWoken

\* ------------------------------------------------------------ the callers

\* The caller takes its lock (unique_lock: "excl", shared_lock: "shared").
Lock(t, m) ==
    /\ pc[t] = "idle"
    /\ CanLock(t, m)
    /\ mode' = [mode EXCEPT ![t] = m]
    /\ held' = [held EXCEPT ![t] = m]
    /\ pc' = [pc EXCEPT ![t] = "cs"]
    /\ UNCHANGED <<flag, callVars, xpVars, vistaVars, hVars, aborted>>

Unlock(t) ==
    /\ pc[t] = "cs"
    /\ held' = [held EXCEPT ![t] = "none"]
    /\ pc' = [pc EXCEPT ![t] = "idle"]
    /\ UNCHANGED <<mode, flag, callVars, xpVars, vistaVars, hVars, aborted>>

\* The awaited state changes only under the exclusive lock.
SetFlag(t, b) ==
    /\ pc[t] = "cs"
    /\ held[t] = "excl"
    /\ flag # b
    /\ flag' = b
    /\ UNCHANGED <<pc, mode, held, callVars, xpVars, vistaVars, hVars, aborted>>

\* ------------------------------------------- the public member functions
\* xp lines 99-112 and 150-187; vista::condition_variable lines 290-342 and
\* vista::condition_variable_any lines 408-458 repeat them statement for
\* statement around their own wait_impl.  pc = "impl" is the call of
\* wait_impl, pc = "impl_ret" its return with "ret" set, pc = "ret" the
\* return of the public function to the caller.

\* wait(lock): wait_impl(lock, INFINITE).
CallWait(t) ==
    /\ pc[t] = "cs"
    /\ op' = [op EXCEPT ![t] = "wait"]
    /\ timeout' = [timeout EXCEPT ![t] = INFINITE]
    /\ pc' = [pc EXCEPT ![t] = "impl"]
    /\ UNCHANGED <<mode, held, flag, ret, result, xpVars, vistaVars, hVars, aborted>>

\* wait(lock, pred): enters the while loop.
CallWaitPred(t) ==
    /\ pc[t] = "cs"
    /\ op' = [op EXCEPT ![t] = "wait_pred"]
    /\ pc' = [pc EXCEPT ![t] = "pred"]
    /\ UNCHANGED <<mode, held, flag, timeout, ret, result, xpVars, vistaVars, hVars, aborted>>

\* while(!pred()) wait(lock);
WaitPredLoop(t) ==
    /\ pc[t] = "pred"
    /\ op[t] = "wait_pred"
    /\ IF flag
       THEN /\ pc' = [pc EXCEPT ![t] = "ret"]
            /\ result' = [result EXCEPT ![t] = "void"]
            /\ UNCHANGED timeout
       ELSE /\ pc' = [pc EXCEPT ![t] = "impl"]
            /\ timeout' = [timeout EXCEPT ![t] = INFINITE]
            /\ UNCHANGED result
    /\ UNCHANGED <<op, mode, held, flag, ret, xpVars, vistaVars, hVars, aborted>>

\* wait_for(lock, rel_time): clamps the milliseconds, calls wait_impl.
CallWaitFor(t, d) ==
    /\ pc[t] = "cs"
    /\ op' = [op EXCEPT ![t] = "wait_for"]
    /\ timeout' = [timeout EXCEPT ![t] = ClampTimeout(d)]
    /\ pc' = [pc EXCEPT ![t] = "impl"]
    /\ UNCHANGED <<mode, held, flag, ret, result, xpVars, vistaVars, hVars, aborted>>

\* wait_until(lock, abs_time): wait_for(lock, abs_time - Clock::now()); d is
\* that difference.
CallWaitUntil(t, d) == CallWaitFor(t, d)

\* wait_until(lock, abs_time, pred): enters the while loop.
CallWaitUntilPred(t) ==
    /\ pc[t] = "cs"
    /\ op' = [op EXCEPT ![t] = "wait_until_pred"]
    /\ pc' = [pc EXCEPT ![t] = "pred"]
    /\ UNCHANGED <<mode, held, flag, timeout, ret, result, xpVars, vistaVars, hVars, aborted>>

\* wait_for(lock, rel_time, pred): wait_until(lock, now() + rel_time, pred).
CallWaitForPred(t) == CallWaitUntilPred(t)

\* while (!pred()) { if (wait_until(lock, abs_time) == timeout) ... } return true;
\* the loop head: pred(), then wait_until -> wait_for with d = abs_time - now().
WaitUntilPredLoop(t, d) ==
    /\ pc[t] = "pred"
    /\ op[t] = "wait_until_pred"
    /\ IF flag
       THEN /\ pc' = [pc EXCEPT ![t] = "ret"]
            /\ result' = [result EXCEPT ![t] = "true"]
            /\ UNCHANGED timeout
       ELSE /\ pc' = [pc EXCEPT ![t] = "impl"]
            /\ timeout' = [timeout EXCEPT ![t] = ClampTimeout(d)]
            /\ UNCHANGED result
    /\ UNCHANGED <<op, mode, held, flag, ret, xpVars, vistaVars, hVars, aborted>>

\* wait_impl's return value: ret == WAIT_OBJECT_0 (xp lines 81-84), the
\* BOOL of SleepConditionVariableCS / SRW (vista lines 260, 382, 391).
ImplResult(t) == ret[t] \in {"WAIT_OBJECT_0", "TRUE"}

\* wait_impl returned into wait(lock): void.
WaitReturn(t) ==
    /\ pc[t] = "impl_ret"
    /\ op[t] = "wait"
    /\ result' = [result EXCEPT ![t] = "void"]
    /\ pc' = [pc EXCEPT ![t] = "ret"]
    /\ UNCHANGED <<op, mode, held, flag, timeout, ret, xpVars, vistaVars, hVars, aborted>>

\* The loop of wait(lock, pred) written as an "if": it returns after one wait.
WaitPredAgain_If(t) ==
    /\ pc[t] = "impl_ret"
    /\ op[t] = "wait_pred"
    /\ result' = [result EXCEPT ![t] = "void"]
    /\ pc' = [pc EXCEPT ![t] = "ret"]
    /\ UNCHANGED <<op, mode, held, flag, timeout, ret, xpVars, vistaVars, hVars, aborted>>

\* wait_impl returned into the wait(lock) of wait(lock, pred): loop again.
WaitPredAgain(t) ==
    /\ pc[t] = "impl_ret"
    /\ op[t] = "wait_pred"
    /\ pc' = [pc EXCEPT ![t] = "pred"]
    /\ UNCHANGED <<op, mode, held, flag, timeout, ret, result, xpVars, vistaVars, hVars, aborted>>

\* return ret ? cv_status::no_timeout : cv_status::timeout;
WaitForReturn(t) ==
    /\ pc[t] = "impl_ret"
    /\ op[t] = "wait_for"
    /\ result' = [result EXCEPT ![t] =
                     IF ImplResult(t) THEN "no_timeout" ELSE "timeout"]
    /\ pc' = [pc EXCEPT ![t] = "ret"]
    /\ UNCHANGED <<op, mode, held, flag, timeout, ret, xpVars, vistaVars, hVars, aborted>>

\* The timed predicate loop returning the raw wake status on a timeout.
WaitUntilPredAfter_RawStatus(t) ==
    /\ pc[t] = "impl_ret"
    /\ op[t] = "wait_until_pred"
    /\ IF ~ImplResult(t)
       THEN /\ result' = [result EXCEPT ![t] = "false"]
            /\ pc' = [pc EXCEPT ![t] = "ret"]
       ELSE /\ pc' = [pc EXCEPT ![t] = "pred"]
            /\ UNCHANGED result
    /\ UNCHANGED <<op, mode, held, flag, timeout, ret, xpVars, vistaVars, hVars, aborted>>

\* if (wait_until(lock, abs_time) == cv_status::timeout) return pred();
WaitUntilPredAfter(t) ==
    /\ pc[t] = "impl_ret"
    /\ op[t] = "wait_until_pred"
    /\ IF ~ImplResult(t)
       THEN /\ result' = [result EXCEPT ![t] = IF flag THEN "true" ELSE "false"]
            /\ pc' = [pc EXCEPT ![t] = "ret"]
       ELSE /\ pc' = [pc EXCEPT ![t] = "pred"]
            /\ UNCHANGED result
    /\ UNCHANGED <<op, mode, held, flag, timeout, ret, xpVars, vistaVars, hVars, aborted>>

\* The caller goes on in its critical section.
Return(t) ==
    /\ pc[t] = "ret"
    /\ pc' = [pc EXCEPT ![t] = "cs"]
    /\ op' = [op EXCEPT ![t] = "none"]
    /\ timeout' = [timeout EXCEPT ![t] = <<0, 0>>]
    /\ ret' = [ret EXCEPT ![t] = "none"]
    /\ result' = [result EXCEPT ![t] = "none"]
    /\ UNCHANGED <<mode, held, flag, xpVars, vistaVars, hVars, aborted>>

\* -------------------------------------- xp::condition_variable_any::wait_impl

\* wait_impl incrementing mNumWaiters without taking mMutex.
XpRegister_NoGuard(t) ==
    /\ pc[t] = "impl"
    /\ family = "xp"
    /\ mNumWaiters' = mNumWaiters + 1
    /\ pc' = [pc EXCEPT ![t] = "wi_unlock"]
    /\ UNCHANGED <<mode, held, flag, callVars, mMutex, mSemaphore, mWakeEvent,
                   targetWaiters, vistaVars, hVars, aborted>>

\* { lock_guard<recursive_mutex> guard(mMutex); mNumWaiters++; }
XpRegister(t) ==
    /\ pc[t] = "impl"
    /\ family = "xp"
    /\ mMutex = NoThread
    /\ mNumWaiters' = mNumWaiters + 1
    /\ pc' = [pc EXCEPT ![t] = "wi_unlock"]
    /\ UNCHANGED <<mode, held, flag, callVars, mMutex, mSemaphore, mWakeEvent,
                   targetWaiters, vistaVars, hVars, aborted>>

\* lock.unlock();
XpUnlock(t) ==
    /\ pc[t] = "wi_unlock"
    /\ held' = [held EXCEPT ![t] = "none"]
    /\ pc' = [pc EXCEPT ![t] = "wi_semwait"]
    /\ UNCHANGED <<mode, flag, callVars, xpVars, vistaVars, hVars, aborted>>

\* DWORD ret = WaitForSingleObject(mSemaphore, timeout): the call.  A count
\* above zero is taken at once; a zero timeout returns at once; otherwise
\* the thread blocks.
XpSemWaitCall(t) ==
    /\ pc[t] = "wi_semwait"
    /\ IF mSemaphore > 0
       THEN /\ mSemaphore' = mSemaphore - 1
            /\ ret' = [ret EXCEPT ![t] = "WAIT_OBJECT_0"]
            /\ pc' = [pc EXCEPT ![t] = "wi_decr"]
            /\ hWoken' = Woken(t)
       ELSE /\ IF timeout[t] = <<0, 0>>
               THEN /\ ret' = [ret EXCEPT ![t] = "WAIT_TIMEOUT"]
                    /\ pc' = [pc EXCEPT ![t] = "wi_decr"]
               ELSE /\ pc' = [pc EXCEPT ![t] = "wi_blocked"]
                    /\ UNCHANGED ret
            /\ UNCHANGED <<mSemaphore, hWoken>>
    /\ UNCHANGED <<op, timeout, result, mode, held, flag, mMutex, mNumWaiters,
                   mWakeEvent, targetWaiters, vistaVars, hReg, hParked, aborted>>

\* The blocked WaitForSingleObject(mSemaphore) is satisfied by a unit.
XpSemWake(t) ==
    /\ pc[t] = "wi_blocked"
    /\ mSemaphore > 0
    /\ mSemaphore' = mSemaphore - 1
    /\ ret' = [ret EXCEPT ![t] = "WAIT_OBJECT_0"]
    /\ pc' = [pc EXCEPT ![t] = "wi_decr"]
    /\ hWoken' = Woken(t)
    /\ UNCHANGED <<op, timeout, result, mode, held, flag, mMutex, mNumWaiters,
                   mWakeEvent, targetWaiters, vistaVars, hReg, hParked, aborted>>

\* The blocked WaitForSingleObject(mSemaphore) times out: only a finite
\* timeout does, and only while the semaphore has no unit for the thread.
XpSemTimeout(t) ==
    /\ pc[t] = "wi_blocked"
    /\ timeout[t] # INFINITE
    /\ mSemaphore = 0
    /\ ret' = [ret EXCEPT ![t] = "WAIT_TIMEOUT"]
    /\ pc' = [pc EXCEPT ![t] = "wi_decr"]
    /\ UNCHANGED <<op, timeout, result, mode, held, flag, xpVars, vistaVars,
                   hVars, aborted>>

\* WaitForSingleObject(mSemaphore, timeout) fails: it returns WAIT_FAILED
\* without taking a unit.
XpSemFail(t) ==
    /\ pc[t] = "wi_semwait"
    /\ ret' = [ret EXCEPT ![t] = "WAIT_FAILED"]
    /\ pc' = [pc EXCEPT ![t] = "wi_decr"]
    /\ UNCHANGED <<op, timeout, result, mode, held, flag, xpVars, vistaVars,
                   hVars, aborted>>

\* mNumWaiters--;
XpDecrement(t) ==
    /\ pc[t] = "wi_decr"
    /\ mNumWaiters' = mNumWaiters - 1
    /\ pc' = [pc EXCEPT ![t] = "wi_setevent"]
    /\ UNCHANGED <<mode, held, flag, callVars, mMutex, mSemaphore, mWakeEvent,
                   targetWaiters, vistaVars, hVars, aborted>>

\* SetEvent(mWakeEvent);
XpSetEvent(t) ==
    /\ pc[t] = "wi_setevent"
    /\ mWakeEvent' = TRUE
    /\ pc' = [pc EXCEPT ![t] = "wi_relock"]
    /\ UNCHANGED <<mode, held, flag, callVars, mMutex, mNumWaiters, mSemaphore,
                   targetWaiters, vistaVars, hVars, aborted>>

\* wait_impl returning without its lock.lock().
XpRelock_NoLock(t) ==
    /\ pc[t] = "wi_relock"
    /\ pc' = [pc EXCEPT ![t] = "impl_ret"]
    /\ UNCHANGED <<mode, held, flag, callVars, xpVars, vistaVars, hVars, aborted>>

\* wait_impl returning a wake status whatever the semaphore wait returned.
XpRelock_NoThrow(t) ==
    /\ pc[t] = "wi_relock"
    /\ CanLock(t, mode[t])
    /\ held' = [held EXCEPT ![t] = mode[t]]
    /\ pc' = [pc EXCEPT ![t] = "impl_ret"]
    /\ UNCHANGED <<mode, flag, callVars, xpVars, vistaVars, hVars, aborted>>

\* lock.lock(); then return ret == WAIT_OBJECT_0 (true) or WAIT_TIMEOUT
\* (false); for any other ret, throw std::system_error(EPROTO), which leaves
\* the public wait function as well.
XpRelock(t) ==
    /\ pc[t] = "wi_relock"
    /\ CanLock(t, mode[t])
    /\ held' = [held EXCEPT ![t] = mode[t]]
    /\ IF ret[t] \in {"WAIT_OBJECT_0", "WAIT_TIMEOUT"}
       THEN /\ pc' = [pc EXCEPT ![t] = "impl_ret"]
            /\ UNCHANGED result
       ELSE /\ pc' = [pc EXCEPT ![t] = "ret"]
            /\ result' = [result EXCEPT ![t] = "EPROTO"]
    /\ UNCHANGED <<mode, flag, op, timeout, ret, xpVars, vistaVars, hVars, aborted>>

\* ------------------------------------- xp::condition_variable_any::notify_all

\* The caller calls notify_all().
CallNotifyAll(t) ==
    /\ pc[t] \in {"idle", "cs"}
    /\ pc' = [pc EXCEPT ![t] = "na_enter"]
    /\ UNCHANGED <<mode, held, flag, callVars, xpVars, vistaVars, hVars, aborted>>

\* notify_all without its lock_guard: mMutex stays free.
NotifyAllLock_NoGuard(t) ==
    /\ pc[t] = "na_enter"
    /\ family = "xp"
    /\ mMutex = NoThread
    /\ hReg' = Registered
    /\ hParked' = Parked
    /\ pc' = [pc EXCEPT ![t] = "na_check"]
    /\ UNCHANGED <<mode, held, flag, callVars, xpVars, vistaVars, hWoken, aborted>>

\* lock_guard<recursive_mutex> lock(mMutex);
NotifyAllLock(t) ==
    /\ pc[t] = "na_enter"
    /\ family = "xp"
    /\ mMutex = NoThread
    /\ mMutex' = t
    /\ hReg' = Registered
    /\ hParked' = Parked
    /\ pc' = [pc EXCEPT ![t] = "na_check"]
    /\ UNCHANGED <<mode, held, flag, callVars, mNumWaiters, mSemaphore,
                   mWakeEvent, targetWaiters, vistaVars, hWoken, aborted>>

\* if (mNumWaiters.load() <= 0) return;
NotifyAllCheck(t) ==
    /\ pc[t] = "na_check"
    /\ pc' = [pc EXCEPT ![t] = IF mNumWaiters <= 0 THEN "na_ret" ELSE "na_release"]
    /\ UNCHANGED <<mode, held, flag, callVars, xpVars, vistaVars, hVars, aborted>>

\* ReleaseSemaphore(mSemaphore, count, NULL): fails, changing nothing, for a
\* count below 1 or one that would pass the semaphore's maximum.
ReleaseSemaphore(count) ==
    IF count >= 1 /\ mSemaphore + count <= SemaphoreMax
    THEN mSemaphore + count
    ELSE mSemaphore

\* ReleaseSemaphore(mSemaphore, mNumWaiters, NULL): mNumWaiters is read again.
NotifyAllRelease(t) ==
    /\ pc[t] = "na_release"
    /\ mSemaphore' = ReleaseSemaphore(mNumWaiters)
    /\ pc' = [pc EXCEPT ![t] = "na_loop"]
    /\ UNCHANGED <<mode, held, flag, callVars, mMutex, mNumWaiters, mWakeEvent,
                   targetWaiters, vistaVars, hVars, aborted>>

\* while(mNumWaiters > 0) WaitForSingleObject(mWakeEvent, 1000): the wait
\* returns on the event, resetting it, or after a second with it unset.
NotifyAllWait(t) ==
    /\ pc[t] = "na_loop"
    /\ mNumWaiters > 0
    /\ mWakeEvent' = FALSE
    /\ UNCHANGED <<pc, mode, held, flag, callVars, mMutex, mNumWaiters,
                   mSemaphore, targetWaiters, vistaVars, hVars, aborted>>

\* notify_all leaving its loop whatever mNumWaiters is.
NotifyAllLoopExit_NoWait(t) ==
    /\ pc[t] = "na_loop"
    /\ pc' = [pc EXCEPT ![t] = "na_drain"]
    /\ UNCHANGED <<mode, held, flag, callVars, xpVars, vistaVars, hVars, aborted>>

\* The loop ends; a failed assert(mNumWaiters == 0) ends the process (a
\* build with NDEBUG goes on).
NotifyAllLoopExit(t) ==
    /\ pc[t] = "na_loop"
    /\ ~(mNumWaiters > 0)
    /\ \E ndebug \in BOOLEAN : aborted' = (mNumWaiters # 0 /\ ~ndebug)
    /\ pc' = [pc EXCEPT ![t] = "na_drain"]
    /\ UNCHANGED <<mode, held, flag, callVars, xpVars, vistaVars, hVars>>

\* while(WaitForSingleObject(mSemaphore, 0) == WAIT_OBJECT_0);
NotifyAllDrain(t) ==
    /\ pc[t] = "na_drain"
    /\ IF mSemaphore > 0
       THEN /\ mSemaphore' = mSemaphore - 1
            /\ UNCHANGED pc
       ELSE /\ pc' = [pc EXCEPT ![t] = "na_ret"]
            /\ UNCHANGED mSemaphore
    /\ UNCHANGED <<mode, held, flag, callVars, mMutex, mNumWaiters, mWakeEvent,
                   targetWaiters, vistaVars, hVars, aborted>>

\* notify_all returns: the lock_guard releases mMutex.
NotifyAllReturn(t) ==
    /\ pc[t] = "na_ret"
    /\ mMutex' = NoThread
    /\ hReg' = {}
    /\ hParked' = {}
    /\ pc' = [pc EXCEPT ![t] = AfterNotify(t)]
    /\ UNCHANGED <<mode, held, flag, callVars, mNumWaiters, mSemaphore,
                   mWakeEvent, targetWaiters, vistaVars, hWoken, aborted>>

\* ------------------------------------- xp::condition_variable_any::notify_one

\* The caller calls notify_one().
CallNotifyOne(t) ==
    /\ pc[t] \in {"idle", "cs"}
    /\ pc' = [pc EXCEPT ![t] = "n1_enter"]
    /\ UNCHANGED <<mode, held, flag, callVars, xpVars, vistaVars, hVars, aborted>>

\* lock_guard<recursive_mutex> lock(mMutex);
NotifyOneLock(t) ==
    /\ pc[t] = "n1_enter"
    /\ family = "xp"
    /\ mMutex = NoThread
    /\ mMutex' = t
    /\ hReg' = Registered
    /\ pc' = [pc EXCEPT ![t] = "n1_check"]
    /\ UNCHANGED <<mode, held, flag, callVars, mNumWaiters, mSemaphore,
                   mWakeEvent, targetWaiters, vistaVars, hParked, hWoken, aborted>>

\* notify_one without its early return.
NotifyOneCheck_NoTest(t) ==
    /\ pc[t] = "n1_check"
    /\ targetWaiters' = [targetWaiters EXCEPT ![t] = mNumWaiters - 1]
    /\ pc' = [pc EXCEPT ![t] = "n1_release"]
    /\ UNCHANGED <<mode, held, flag, callVars, mMutex, mNumWaiters, mSemaphore,
                   mWakeEvent, vistaVars, hVars, aborted>>

\* int targetWaiters = mNumWaiters.load() - 1; if (targetWaiters <= -1) return;
NotifyOneCheck(t) ==
    /\ pc[t] = "n1_check"
    /\ targetWaiters' = [targetWaiters EXCEPT ![t] = mNumWaiters - 1]
    /\ pc' = [pc EXCEPT ![t] =
                IF mNumWaiters - 1 <= -1 THEN "n1_ret0" ELSE "n1_release"]
    /\ UNCHANGED <<mode, held, flag, callVars, mMutex, mNumWaiters, mSemaphore,
                   mWakeEvent, vistaVars, hVars, aborted>>

\* notify_one without its ReleaseSemaphore.
NotifyOneRelease_NoUnit(t) ==
    /\ pc[t] = "n1_release"
    /\ hWoken' = {}
    /\ pc' = [pc EXCEPT ![t] = "n1_loop"]
    /\ UNCHANGED <<mode, held, flag, callVars, xpVars, vistaVars, hReg, hParked, aborted>>

\* ReleaseSemaphore(mSemaphore, 1, NULL);
NotifyOneRelease(t) ==
    /\ pc[t] = "n1_release"
    /\ mSemaphore' = ReleaseSemaphore(1)
    /\ hWoken' = {}
    /\ pc' = [pc EXCEPT ![t] = "n1_loop"]
    /\ UNCHANGED <<mode, held, flag, callVars, mMutex, mNumWaiters, mWakeEvent,
                   targetWaiters, vistaVars, hReg, hParked, aborted>>

\* while(mNumWaiters > targetWaiters) WaitForSingleObject(mWakeEvent, 1000);
NotifyOneWait(t) ==
    /\ pc[t] = "n1_loop"
    /\ mNumWaiters > targetWaiters[t]
    /\ mWakeEvent' = FALSE
    /\ UNCHANGED <<pc, mode, held, flag, callVars, mMutex, mNumWaiters,
                   mSemaphore, targetWaiters, vistaVars, hVars, aborted>>

NotifyOneLoopExit(t) ==
    /\ pc[t] = "n1_loop"
    /\ ~(mNumWaiters > targetWaiters[t])
    /\ pc' = [pc EXCEPT ![t] = "n1_assert"]
    /\ UNCHANGED <<mode, held, flag, callVars, xpVars, vistaVars, hVars, aborted>>

\* assert(mNumWaiters == targetWaiters): a failed assert ends the process
\* (a build with NDEBUG goes on).
NotifyOneAssert(t) ==
    /\ pc[t] = "n1_assert"
    /\ \E ndebug \in BOOLEAN :
          aborted' = (mNumWaiters # targetWaiters[t] /\ ~ndebug)
    /\ pc' = [pc EXCEPT ![t] = "n1_ret"]
    /\ UNCHANGED <<mode, held, flag, callVars, xpVars, vistaVars, hVars>>

\* notify_one returns (after a release, or at once with no waiter): the
\* lock_guard releases mMutex.
NotifyOneReturn(t) ==
    /\ pc[t] \in {"n1_ret", "n1_ret0"}
    /\ mMutex' = NoThread
    /\ hReg' = {}
    /\ hParked' = {}
    /\ hWoken' = {}
    /\ targetWaiters' = [targetWaiters EXCEPT ![t] = 0]
    /\ pc' = [pc EXCEPT ![t] = AfterNotify(t)]
    /\ UNCHANGED <<mode, held, flag, callVars, mNumWaiters, mSemaphore,
                   mWakeEvent, vistaVars, aborted>>

\* ----------------------------------- vista::condition_variable (the native one)
\* SleepConditionVariableCS / SleepConditionVariableSRW release the lock and
\* enter the sleep in one atomic step; the thread leaves the sleep when it
\* is woken, when a finite time is over, or spuriously, and then takes the
\* lock again before the call returns.

\* wait_impl(unique_lock<mutex>&, DWORD), lines 240-255 (also reached through
\* the any-lock class's overload at lines 364-367): lock.release(),
\* mOwnerThread = 0, SleepConditionVariableCS.
VistaSleepCS(t) ==
    /\ pc[t] = "impl"
    /\ family = "mutex"
    /\ held' = [held EXCEPT ![t] = "none"]
    /\ cvariable_' = cvariable_ \cup {t}
    /\ pc' = [pc EXCEPT ![t] = "v_sleep"]
    /\ UNCHANGED <<mode, flag, callVars, xpVars, family, internal_mutex_, hVars, aborted>>

\* wait_impl(unique_lock<native_shared_mutex>&, DWORD), lines 372-380.
VistaSleepSRWExclusive(t) ==
    /\ pc[t] = "impl"
    /\ family = "srw"
    /\ mode[t] = "excl"
    /\ held' = [held EXCEPT ![t] = "none"]
    /\ cvariable_' = cvariable_ \cup {t}
    /\ pc' = [pc EXCEPT ![t] = "v_sleep"]
    /\ UNCHANGED <<mode, flag, callVars, xpVars, family, internal_mutex_, hVars, aborted>>

\* wait_impl(shared_lock<native_shared_mutex>&, DWORD), lines 384-389.
VistaSleepSRWShared(t) ==
    /\ pc[t] = "impl"
    /\ family = "srw"
    /\ mode[t] = "shared"
    /\ held' = [held EXCEPT ![t] = "none"]
    /\ cvariable_' = cvariable_ \cup {t}
    /\ pc' = [pc EXCEPT ![t] = "v_sleep"]
    /\ UNCHANGED <<mode, flag, callVars, xpVars, family, internal_mutex_, hVars, aborted>>

\* The sleeping thread w leaves the sleep with the BOOL b.
LeaveSleep(w, b) ==
    /\ pc' = [pc EXCEPT ![w] = "v_reacq"]
    /\ ret' = [ret EXCEPT ![w] = b]

\* A finite time is over: the sleep returns FALSE.
NativeTimeout(t) ==
    /\ pc[t] = "v_sleep"
    /\ timeout[t] # INFINITE
    /\ cvariable_' = cvariable_ \ {t}
    /\ LeaveSleep(t, "FALSE")
    /\ UNCHANGED <<op, timeout, result, mode, held, flag, xpVars, family,
                   internal_mutex_, hVars, aborted>>

\* A spurious wakeup: the sleep returns TRUE.
NativeSpurious(t) ==
    /\ pc[t] = "v_sleep"
    /\ cvariable_' = cvariable_ \ {t}
    /\ LeaveSleep(t, "TRUE")
    /\ UNCHANGED <<op, timeout, result, mode, held, flag, xpVars, family,
                   internal_mutex_, hVars, aborted>>

\* notify_one: WakeConditionVariable(&cvariable_) wakes one sleeping thread,
\* if there is one.
VistaNotifyOne(n) ==
    /\ pc[n] = "n1_enter"
    /\ family # "xp"
    /\ IF cvariable_ = {}
       THEN /\ pc' = [pc EXCEPT ![n] = AfterNotify(n)]
            /\ UNCHANGED <<ret, cvariable_>>
       ELSE \E w \in cvariable_ :
                /\ cvariable_' = cvariable_ \ {w}
                /\ pc' = [pc EXCEPT ![w] = "v_reacq", ![n] = AfterNotify(n)]
                /\ ret' = [ret EXCEPT ![w] = "TRUE"]
    /\ UNCHANGED <<op, timeout, result, mode, held, flag, xpVars, family,
                   internal_mutex_, hVars, aborted>>

\* notify_all: WakeAllConditionVariable(&cvariable_) wakes every sleeping
\* thread.
VistaNotifyAll(n) ==
    /\ pc[n] = "na_enter"
    /\ family # "xp"
    /\ cvariable_' = {}
    /\ pc' = [w \in Threads |-> IF w \in cvariable_ THEN "v_reacq"
                                ELSE IF w = n THEN AfterNotify(n) ELSE pc[w]]
    /\ ret' = [w \in Threads |-> IF w \in cvariable_ THEN "TRUE" ELSE ret[w]]
    /\ UNCHANGED <<op, timeout, result, mode, held, flag, xpVars, family,
                   internal_mutex_, hVars, aborted>>

\* SleepConditionVariableCS takes the critical section again; lines 256-260:
\* mOwnerThread, lock = unique_lock<mutex>(*pmutex, adopt_lock), return.
VistaReacquireCS(t) ==
    /\ pc[t] = "v_reacq"
    /\ family = "mutex"
    /\ CanLock(t, "excl")
    /\ held' = [held EXCEPT ![t] = "excl"]
    /\ pc' = [pc EXCEPT ![t] = "impl_ret"]
    /\ UNCHANGED <<mode, flag, callVars, xpVars, vistaVars, hVars, aborted>>

\* SleepConditionVariableSRW with Flags 0 takes the lock again in exclusive
\* mode; lines 381-382.
VistaReacquireSRWExclusive(t) ==
    /\ pc[t] = "v_reacq"
    /\ family = "srw"
    /\ mode[t] = "excl"
    /\ CanLock(t, "excl")
    /\ held' = [held EXCEPT ![t] = "excl"]
    /\ pc' = [pc EXCEPT ![t] = "impl_ret"]
    /\ UNCHANGED <<mode, flag, callVars, xpVars, vistaVars, hVars, aborted>>

\* SleepConditionVariableSRW with CONDITION_VARIABLE_LOCKMODE_SHARED takes
\* the lock again in shared mode; lines 390-391.
VistaReacquireSRWShared(t) ==
    /\ pc[t] = "v_reacq"
    /\ family = "srw"
    /\ mode[t] = "shared"
    /\ CanLock(t, "shared")
    /\ held' = [held EXCEPT ![t] = "shared"]
    /\ pc' = [pc EXCEPT ![t] = "impl_ret"]
    /\ UNCHANGED <<mode, flag, callVars, xpVars, vistaVars, hVars, aborted>>

\* --------------------- vista::condition_variable_any::wait_impl<L> (any lock)

\* unique_lock<mutex> internal_lock(internal_mutex_);
GenLockInternal(t) ==
    /\ pc[t] = "impl"
    /\ family = "generic"
    /\ internal_mutex_ = NoThread
    /\ internal_mutex_' = t
    /\ pc' = [pc EXCEPT ![t] = "g_unlock"]
    /\ UNCHANGED <<mode, held, flag, callVars, xpVars, family, cvariable_, hVars, aborted>>

\* lock.unlock();
GenUnlock(t) ==
    /\ pc[t] = "g_unlock"
    /\ held' = [held EXCEPT ![t] = "none"]
    /\ pc' = [pc EXCEPT ![t] = "g_sleep"]
    /\ UNCHANGED <<mode, flag, callVars, xpVars, vistaVars, hVars, aborted>>

\* base::wait_impl(internal_lock, time): SleepConditionVariableCS releases
\* internal_mutex_ and enters the sleep.
GenSleep(t) ==
    /\ pc[t] = "g_sleep"
    /\ internal_mutex_' = NoThread
    /\ cvariable_' = cvariable_ \cup {t}
    /\ pc' = [pc EXCEPT ![t] = "v_sleep"]
    /\ UNCHANGED <<mode, held, flag, callVars, xpVars, family, hVars, aborted>>

\* ... and takes internal_mutex_ again before base::wait_impl returns.
GenReacquireInternal(t) ==
    /\ pc[t] = "v_reacq"
    /\ family = "generic"
    /\ internal_mutex_ = NoThread
    /\ internal_mutex_' = t
    /\ pc' = [pc EXCEPT ![t] = "g_relock"]
    /\ UNCHANGED <<mode, held, flag, callVars, xpVars, family, cvariable_, hVars, aborted>>

\* lock.lock();
GenRelock(t) ==
    /\ pc[t] = "g_relock"
    /\ CanLock(t, mode[t])
    /\ held' = [held EXCEPT ![t] = mode[t]]
    /\ pc' = [pc EXCEPT ![t] = "g_ret"]
    /\ UNCHANGED <<mode, flag, callVars, xpVars, vistaVars, hVars, aborted>>

\* return success; internal_lock's destructor releases internal_mutex_.
GenReturn(t) ==
    /\ pc[t] = "g_ret"
    /\ internal_mutex_' = NoThread
    /\ pc' = [pc EXCEPT ![t] = "impl_ret"]
    /\ UNCHANGED <<mode, held, flag, callVars, xpVars, family, cvariable_, hVars, aborted>>

\* ------------------------------------------------- the emulated engine's runs

InitCommon ==
    /\ pc = [t \in Threads |-> "idle"]
    /\ op = [t \in Threads |-> "none"]
    /\ mode = [t \in Threads |-> "excl"]
    /\ held = [t \in Threads |-> "none"]
    /\ flag = FALSE
    /\ timeout = [t \in Threads |-> <<0, 0>>]
    /\ ret = [t \in Threads |-> "none"]
    /\ result = [t \in Threads |-> "none"]
    /\ mMutex = NoThread
    /\ mNumWaiters = 0
    /\ mSemaphore = 0
    /\ mWakeEvent = FALSE
    /\ targetWaiters = [t \in Threads |-> 0]
    /\ aborted = FALSE
    /\ cvariable_ = {}
    /\ internal_mutex_ = NoThread
    /\ hReg = {}
    /\ hParked = {}
    /\ hWoken = {}

Init ==
    /\ InitCommon
    /\ family = "xp"

\* The public wait functions' own steps.
WaitStep(t) ==
    \/ WaitPredLoop(t)
    \/ \E d \in Durations : WaitUntilPredLoop(t, d)
    \/ WaitReturn(t)
    \/ WaitPredAgain(t)
    \/ WaitForReturn(t)
    \/ WaitUntilPredAfter(t)

XpWaitImpl(t) ==
    \/ XpRegister(t)
    \/ XpUnlock(t)
    \/ XpSemWaitCall(t)
    \/ XpSemWake(t)
    \/ XpSemTimeout(t)
    \/ XpDecrement(t)
    \/ XpSetEvent(t)
    \/ XpRelock(t)

XpNotify(t) ==
    \/ NotifyAllLock(t)
    \/ NotifyAllCheck(t)
    \/ NotifyAllRelease(t)
    \/ NotifyAllWait(t)
    \/ NotifyAllLoopExit(t)
    \/ NotifyAllDrain(t)
    \/ NotifyAllReturn(t)
    \/ NotifyOneLock(t)
    \/ NotifyOneCheck(t)
    \/ NotifyOneRelease(t)
    \/ NotifyOneWait(t)
    \/ NotifyOneLoopExit(t)
    \/ NotifyOneAssert(t)
    \/ NotifyOneReturn(t)

\* The emulated engine under untimed and timed waits: each waiter locks,
\* calls wait or wait_for any number of times, and unlocks; each notifier
\* calls notify_one or notify_all, inside or outside the lock.
XpWaiterCall(t) ==
    \/ \E m \in {"excl", "shared"} : Lock(t, m)
    \/ Unlock(t)
    \/ CallWait(t)
    \/ \E d \in Durations : CallWaitFor(t, d)
    \/ WaitReturn(t)
    \/ WaitForReturn(t)
    \/ Return(t)

XpNotifierCall(t) ==
    \/ Lock(t, "excl")
    \/ Unlock(t)
    \/ CallNotifyAll(t)
    \/ CallNotifyOne(t)

Next ==
    /\ ~aborted
    /\ \/ \E t \in Waiters : XpWaiterCall(t) \/ XpWaitImpl(t)
       \/ \E t \in Notifiers : XpNotifierCall(t) \/ XpNotify(t)

Spec == Init /\ [][Next]_vars

\* The scheduler runs every thread that can take a step of the library's
\* code, as long as the process lives; callers are free to make no further
\* call.
FairSpec ==
    /\ Spec
    /\ \A t \in Waiters : WF_vars(~aborted /\ XpWaitImpl(t))
    /\ \A t \in Notifiers : WF_vars(~aborted /\ XpNotify(t))

\* The emulated engine when the semaphore wait can fail.  A failed wait
\* takes no unit, so the units of notify_one calls pile up in the semaphore
\* without limit; the runs stop failing the wait at MaxPiledUnits units.
MaxPiledUnits == 2

NextErr ==
    /\ ~aborted
    /\ \/ \E t \in Waiters :
             \/ XpWaiterCall(t)
             \/ XpWaitImpl(t)
             \/ mSemaphore < MaxPiledUnits /\ XpSemFail(t)
       \/ \E t \in Notifiers : XpNotifierCall(t) \/ XpNotify(t)

SpecErr == Init /\ [][NextErr]_vars

\* ------------------------------------- the public functions over each engine

\* The lock modes the run's lock type has.
LockModes == IF family = "mutex" THEN {"excl"} ELSE {"excl", "shared"}

\* What a waiter's caller does with the whole wait family.
WaiterCall(t) ==
    \/ \E m \in LockModes : Lock(t, m)
    \/ Unlock(t)
    \/ SetFlag(t, FALSE)
    \/ CallWait(t)
    \/ CallWaitPred(t)
    \/ \E d \in Durations : CallWaitFor(t, d)
    \/ \E d \in Durations : CallWaitUntil(t, d)
    \/ CallWaitUntilPred(t)
    \/ CallWaitForPred(t)
    \/ Return(t)

VistaWaitImpl(t) ==
    \/ VistaSleepCS(t)
    \/ VistaSleepSRWExclusive(t)
    \/ VistaSleepSRWShared(t)
    \/ NativeTimeout(t)
    \/ NativeSpurious(t)
    \/ VistaReacquireCS(t)
    \/ VistaReacquireSRWExclusive(t)
    \/ VistaReacquireSRWShared(t)
    \/ GenLockInternal(t)
    \/ GenUnlock(t)
    \/ GenSleep(t)
    \/ GenReacquireInternal(t)
    \/ GenRelock(t)
    \/ GenReturn(t)

\* What a notifier's caller does around the notify calls.
NotifierCall(t) ==
    \/ Lock(t, "excl")
    \/ Unlock(t)
    \/ \E b \in BOOLEAN : SetFlag(t, b)
    \/ CallNotifyAll(t)
    \/ CallNotifyOne(t)

VistaNotify(t) ==
    \/ VistaNotifyOne(t)
    \/ VistaNotifyAll(t)

\* The native-backed classes: every waiter, the whole wait family, each of
\* the three lock types.
InitVista ==
    /\ InitCommon
    /\ family \in {"mutex", "srw", "generic"}

NextVista ==
    \/ \E t \in Waiters : WaiterCall(t) \/ WaitStep(t) \/ VistaWaitImpl(t)
    \/ \E t \in Notifiers : NotifierCall(t) \/ VistaNotify(t)

SpecVista == InitVista /\ [][NextVista]_vars

\* The public functions over both engines: the whole wait family, with the
\* awaited state changing under the lock.
NumApiWaiters == 1
ApiWaiters == 1..NumApiWaiters

InitApi ==
    /\ InitCommon
    /\ family \in {"xp", "mutex", "srw", "generic"}

NextApi ==
    /\ ~aborted
    /\ \/ \E t \in ApiWaiters :
             WaiterCall(t) \/ WaitStep(t) \/ XpWaitImpl(t) \/ VistaWaitImpl(t)
       \/ \E t \in Notifiers :
             NotifierCall(t) \/ XpNotify(t) \/ VistaNotify(t)

SpecApi == InitApi /\ [][NextApi]_vars

\* wait_for's timeout conversion over the range of a long long of
\* milliseconds: -2^32, -1, 0, 1, 50, 2^32 - 2, 2^32 - 1, 2^32, 2^32 + 50.
ConvDurations ==
    {<<-1, 0, 0>>, <<-1, HalfWordMax, HalfWordMax>>, <<0, 0, 0>>, <<0, 0, 1>>,
     <<0, 0, 50>>, <<0, HalfWordMax, HalfWordMax - 1>>,
     <<0, HalfWordMax, HalfWordMax>>, <<1, 0, 0>>, <<1, 0, 50>>}

ConvWaiterCall(t) ==
    \/ \E m \in LockModes : Lock(t, m)
    \/ Unlock(t)
    \/ \E d \in ConvDurations : CallWaitFor(t, d)
    \/ WaitForReturn(t)
    \/ Return(t)

NextConv ==
    /\ ~aborted
    /\ \/ \E t \in ApiWaiters :
             ConvWaiterCall(t) \/ XpWaitImpl(t) \/ VistaWaitImpl(t)
       \/ \E t \in Notifiers :
             NotifierCall(t) \/ XpNotify(t) \/ VistaNotify(t)

SpecConv == InitApi /\ [][NextConv]_vars

\* ------------------------------------------------------------------ claims

C3_NotifyAllReleasesRegistered ==
    \A n \in Notifiers :
        pc[n] = "na_ret" => \A w \in hReg : pc[w] \notin RegisteredPcs

C3_Witness ==
    \E n \in Notifiers :
        /\ pc[n] = "na_ret"
        /\ \E w1, w2 \in hReg : /\ timeout[w1] = INFINITE
                                /\ ret[w2] = "WAIT_TIMEOUT"
                                /\ pc[w2] = "wi_relock"

\* The pcs of a waiter inside wait_impl that has not reacquired its lock.
NotReturnedPcs == RegisteredPcs \cup {"wi_setevent", "wi_relock"}

\* C4 as stated: with every waiter parked when notify_all acquired mMutex,
\* every waiter has returned from wait, its lock reacquired, when
\* notify_all returns.
C4_AllReturnedBeforeNotifyAllReturns ==
    \A n \in Notifiers :
        (pc[n] = "na_ret" /\ hParked = Waiters)
            => \A w \in Waiters : pc[w] \notin NotReturnedPcs

\* C4 as amended: with every waiter parked when notify_all acquired mMutex,
\* every waiter has left its semaphore wait and decremented mNumWaiters
\* when notify_all returns.
C4_AllUnregisteredBeforeNotifyAllReturns ==
    \A n \in Notifiers :
        (pc[n] = "na_ret" /\ hParked = Waiters)
            => /\ mNumWaiters = 0
               /\ \A w \in Waiters : pc[w] \notin RegisteredPcs

C4_Witness ==
    \E n \in Notifiers :
        /\ pc[n] = "na_ret"
        /\ hParked = Waiters
        /\ \E w \in Waiters : pc[w] = "wi_relock"

\* C5: when notify_all returns, mMutex still held, mNumWaiters is 0 and
\* the semaphore's count is 0.
C5_NotifyAllLeavesNoDrift ==
    \A n \in Notifiers :
        pc[n] = "na_ret" => mNumWaiters = 0 /\ mSemaphore = 0

\* C6: between a notify_one's ReleaseSemaphore and its return at most one
\* waiter's semaphore wait returns WAIT_OBJECT_0.
C6_NotifyOneWakesAtMostOne ==
    NotifyOneReleased => Cardinality(hWoken) <= 1

\* C7: when a notify_one that released a unit returns, a waiter's
\* semaphore wait has returned WAIT_OBJECT_0 since the release.
C7_NotifyOneUnitConsumedAtReturn ==
    \A n \in Notifiers : pc[n] = "n1_ret" => hWoken # {}

\* The awaited state is true and thread n, holding the caller's lock
\* exclusively, is at its notify call.
NotifiesUnderLock(n) == held[n] = "excl" /\ flag

\* A waiter inside the any-lock or a native wait_impl that has released the
\* caller's lock and has not left the sleep.
ReleasedPcs == {"g_sleep", "v_sleep"}

\* C2: a waiter's release of the caller's lock and its block on the native
\* condition variable are atomic with respect to notifications: a
\* notify_all issued under the caller's lock, the awaited state changed,
\* wakes every waiter that has released the lock, and a notify_one wakes
\* one of them.
C2_ReleaseAndBlockAtomic ==
    [][\A n \in Notifiers :
         /\ (VistaNotifyAll(n) /\ NotifiesUnderLock(n))
               => \A w \in Waiters :
                     pc[w] \in ReleasedPcs => pc'[w] = "v_reacq"
         /\ (VistaNotifyOne(n) /\ NotifiesUnderLock(n))
               => ((\E w \in Waiters : pc[w] \in ReleasedPcs)
                     => \E w \in Waiters :
                           pc[w] \in ReleasedPcs /\ pc'[w] = "v_reacq")]_vars

\* The caller's code runs with the lock it took: its critical section.
CriticalPcs == {"cs", "pred", "impl_ret", "ret"}

\* C8: when a wait function returns, the caller holds its lock in the mode
\* it held it in before the call; two threads are in their critical
\* sections together only when both hold the lock shared.
C8_LockHeldAsBefore ==
    /\ \A t \in Threads : pc[t] \in {"impl_ret", "ret"} => held[t] = mode[t]
    /\ \A t, u \in Threads :
          (t # u /\ pc[t] \in CriticalPcs /\ pc[u] \in CriticalPcs)
              => (held[t] = "shared" /\ held[u] = "shared")

C8_Witness ==
    \E t \in Threads :
        /\ pc[t] = "ret"
        /\ family = "generic"
        /\ mode[t] = "shared"
        /\ ret[t] = "FALSE"

\* C9: wait(lock, pred) returns only with pred() true.
C9_WaitPredReturnsTrue ==
    \A t \in Threads : (pc[t] = "ret" /\ op[t] = "wait_pred") => flag

C9_Witness ==
    \E t \in Threads :
        /\ pc[t] = "ret"
        /\ op[t] = "wait_pred"
        /\ ret[t] \in {"WAIT_OBJECT_0", "TRUE"}

\* C10: wait_until(lock, abs_time, pred), and wait_for(lock, rel_time, pred)
\* through it, return the value pred() has at the return, and false only
\* after a block that timed out.
C10_TimedPredReturnsPred ==
    \A t \in Threads :
        (pc[t] = "ret" /\ op[t] = "wait_until_pred")
            => /\ (result[t] = "true") <=> flag
               /\ result[t] \in {"true", "false"}
               /\ result[t] = "false" => ret[t] \in {"WAIT_TIMEOUT", "FALSE"}

C10_Witness ==
    \E t \in Threads :
        /\ pc[t] = "ret"
        /\ op[t] = "wait_until_pred"
        /\ result[t] = "true"
        /\ ret[t] \in {"WAIT_TIMEOUT", "FALSE"}

\* A request of zero or fewer milliseconds: wait_for's clamp hands wait_impl
\* the timeout 0 for it, and for no other member of Durations.
ZeroTimeout(t) == timeout[t] = <<0, 0>>

\* C11: on the emulated engine wait_for(lock, d) with d <= 0 returns
\* cv_status::timeout, the predicate form returns with the wait timed out
\* (false while pred() is false), and neither blocks in the semaphore wait.
C11_NonPositiveTimesOutAtOnce ==
    \A t \in Waiters :
        (family = "xp" /\ ZeroTimeout(t))
            => /\ pc[t] # "wi_blocked"
               /\ (pc[t] = "ret" /\ op[t] = "wait_for") => result[t] = "timeout"
               /\ (pc[t] = "ret" /\ op[t] = "wait_until_pred" /\ ~flag)
                     => (result[t] = "false" /\ ret[t] = "WAIT_TIMEOUT")

\* C12: a semaphore wait that returns neither WAIT_OBJECT_0 nor WAIT_TIMEOUT
\* never becomes a wake status: the wait function ends with EPROTO, and by
\* then the waiter has decremented mNumWaiters (the counter equals the
\* number of registered waiters throughout) and holds its lock as before.
C12_FailureSurfacesEPROTO ==
    /\ mNumWaiters = Cardinality(Registered)
    /\ \A t \in Waiters :
          /\ ret[t] = "WAIT_FAILED"
                => pc[t] \in {"wi_decr", "wi_setevent", "wi_relock", "ret"}
          /\ (pc[t] = "ret" /\ ret[t] = "WAIT_FAILED")
                => (result[t] = "EPROTO" /\ held[t] = mode[t])
          /\ result[t] = "EPROTO" => ret[t] = "WAIT_FAILED"

C12_Witness ==
    \E t \in Waiters :
        /\ pc[t] = "ret"
        /\ result[t] = "EPROTO"
        /\ mode[t] = "shared"
        /\ \E n \in Notifiers : pc[n] = "na_drain"

\* C13: when notify_one's loop has ended, mNumWaiters equals targetWaiters:
\* the assert after the loop holds.
C13_NotifyOneAssertHolds ==
    \A n \in Notifiers : pc[n] = "n1_assert" => mNumWaiters = targetWaiters[n]

\* C14: with no notify call in progress and no waiter registered, the
\* semaphore's count is 0.
C14_CleanChannel ==
    (mMutex = NoThread /\ mNumWaiters = 0) => mSemaphore = 0

\* C15: in the any-lock wait_impl the waiter does not hold internal_mutex_
\* when it reacquires the caller's lock.
C15_AdapterLockReleasedFirst ==
    \A t \in Waiters : pc[t] = "g_relock" => internal_mutex_ # t

\* Thread a, waking, holds internal_mutex_ and is blocked in lock.lock() by
\* thread b, which holds the caller's lock and is blocked at wait_impl's
\* acquisition of internal_mutex_.
AdapterDeadlock(a, b) ==
    /\ a # b
    /\ pc[a] = "g_relock"
    /\ internal_mutex_ = a
    /\ ~CanLock(a, mode[a])
    /\ pc[b] = "impl"
    /\ family = "generic"
    /\ held[b] # "none"

\* C16: no reachable state has one thread holding internal_mutex_ and
\* blocked on the caller's lock while another holds the caller's lock and
\* is blocked on internal_mutex_.
C16_NoAdapterDeadlock ==
    \A a, b \in Waiters : ~AdapterDeadlock(a, b)

\* A notify_all that holds mMutex.
NotifyAllPcs == {"na_check", "na_release", "na_loop", "na_drain", "na_ret"}

\* C17: while a notify_all holds mMutex, no waiter outside the set that was
\* registered when it acquired mMutex is registered or at the semaphore,
\* and a notify_all that released units returns with none left in the
\* semaphore for a later waiter.
C17_LateWaiterNotWoken ==
    /\ [](\A n \in Notifiers :
             pc[n] \in NotifyAllPcs
                 => \A w \in Waiters \ hReg : pc[w] \notin RegisteredPcs)
    /\ [][\A n \in Notifiers :
             (pc[n] \in {"na_loop", "na_drain"} /\ pc'[n] = "na_ret")
                 => mSemaphore' = 0]_vars

C17_Witness ==
    \E n \in Notifiers, w \in Waiters :
        /\ pc[n] = "na_loop"
        /\ mSemaphore > 0
        /\ pc[w] = "impl"
        /\ w \notin hReg

\* A notify_one or notify_all that holds mMutex and finds no waiter
\* registered: at its test of mNumWaiters, or past it on the way out.
FindsNoWaiter(n) ==
    \/ pc[n] \in {"na_check", "n1_check"} /\ mNumWaiters <= 0
    \/ pc[n] = "n1_ret0"

\* C18: a notify_one or notify_all that finds no waiter registered goes
\* straight to its return; from its test to its return the semaphore's
\* count and mNumWaiters do not change, and its own steps change no
\* caller's lock.
C18_NotifyWithoutWaitersIsNoOp ==
    [][\A n \in Notifiers :
         FindsNoWaiter(n)
             => /\ UNCHANGED <<mSemaphore, mNumWaiters>>
                /\ pc'[n] # pc[n]
                      => /\ pc'[n] \in {"na_ret", "n1_ret0", "idle", "cs"}
                         /\ UNCHANGED held]_vars

C18_Witness ==
    \E n \in Notifiers, w \in Waiters :
        /\ pc[n] = "n1_ret0"
        /\ pc[w] = "ret"
        /\ result[w] = "timeout"
        /\ mSemaphore = 0

\* A thread inside notify_one or notify_all.
NotifyPcs ==
    NotifyAllPcs \cup {"na_enter", "n1_enter", "n1_check", "n1_release",
                       "n1_loop", "n1_assert", "n1_ret", "n1_ret0"}

\* C19: every notify_one and notify_all call eventually returns.
C19_NotifyReturns ==
    \A n \in Notifiers : (pc[n] \in NotifyPcs) ~> (pc[n] \in {"idle", "cs"})

\* max(0, ms) for a long long of milliseconds.
Max0(ms) == IF ms[1] < 0 THEN <<0, 0, 0>> ELSE ms

\* C20: the DWORD wait_for hands to wait_impl for a request of ms
\* milliseconds is max(0, ms), and is not the INFINITE sentinel.
C20_TimeoutIsClampedRequest ==
    [][\A t \in ApiWaiters, d \in ConvDurations :
         CallWaitFor(t, d)
             => /\ <<0, timeout'[t][1], timeout'[t][2]>> = Max0(d)
                /\ timeout'[t] # INFINITE]_vars

=============================================================================
